---- MODULE Spec2Model ----
(***************************************************************************)
(* Model of the blogicum blog application (blog/views.py, blog/models.py,  *)
(* blog/forms.py, blog/admin.py): the store of posts, categories and       *)
(* comments, the request handlers that read and change it, and the         *)
(* pagination of the listings.                                             *)
(***************************************************************************)
EXTENDS Integers, Sequences, FiniteSets

VARIABLES
    posts,          \* Post table: pk -> row
    categories,     \* Category table: pk -> row
    comments,       \* Comment table: pk -> row
    nextPost,       \* next primary key of the Post table
    nextComment,    \* next primary key of the Comment table
    clock,          \* the wall clock (timezone.now() if it were called now)
    NOW,            \* views.NOW, evaluated once when the module is imported
    objects_list,   \* a queryset result handed to the paginator (SpecPage)
    resp            \* the request handled last and the response to it

vars == <<posts, categories, comments, nextPost, nextComment, clock, NOW,
          objects_list, resp>>

store == <<posts, categories, comments, nextPost, nextComment>>

\* ---------------------------------------------------------------- bounds
MaxUser == 2
MaxPost == 2
MaxCat == 1
MaxComment == 2
MaxTime == 2
MaxText == 2
MaxLen == 21
MaxPageReq == 4
MaxPerPage == 3

\* ------------------------------------------------------ program constants
PAGINATE_NUM == 10

Anonymous == 0
Users == 1..MaxUser
Viewers == {Anonymous} \cup Users
PostIds == 1..MaxPost
CatIds == 1..MaxCat
CommentIds == 1..MaxComment
Times == 0..MaxTime
Texts == 1..MaxText
NoCategory == 0

NoPost == [exists |-> FALSE, author |-> 0, is_published |-> FALSE,
           pub_date |-> 0, category |-> NoCategory]
NoCategoryRow == [exists |-> FALSE, is_published |-> FALSE]
NoComment == [exists |-> FALSE, author |-> 0, post |-> 0, text |-> 0]

\* ------------------------------------------------------------- responses
NoWhere == [name |-> "none", arg |-> 0]
LoginUrl == [name |-> "login", arg |-> 0]
IndexUrl == [name |-> "index", arg |-> 0]
ProfileUrl(u) == [name |-> "profile", arg |-> u]
PostDetailUrl(p) == [name |-> "post_detail", arg |-> p]

\* the page parameter of the query string: absent, text, "last" or a number
NoPage == [kind |-> "missing", n |-> 0]

Response(view, user, pk, outcome, to) ==
    [view |-> view, user |-> user, pk |-> pk, outcome |-> outcome,
     to |-> to, param |-> NoPage, items |-> <<>>, number |-> 0]

\* a step that is not a request of the site (the clock, the admin site)
NoRequest == Response("none", 0, 0, "Allow", NoWhere)

\* ------------------------------------------------------------ primitives
\* get_object_or_404(Post, pk=pk) finds a row
PostExists(pk) == pk \in PostIds /\ posts[pk].exists
CommentExists(pk) == pk \in CommentIds /\ comments[pk].exists
CategoryExists(c) == c \in CatIds /\ categories[c].exists

\* a post without category taken for one of a published category
category__is_published_NullPasses(p) ==
    \/ posts[p].category = NoCategory
    \/ /\ categories[posts[p].category].exists
       /\ categories[posts[p].category].is_published

\* category__is_published=True: an inner join, a null category matches nothing
category__is_published(p) ==
    /\ posts[p].category # NoCategory
    /\ categories[posts[p].category].exists
    /\ categories[posts[p].category].is_published

\* Post.get_absolute_url
get_absolute_url(p) == PostDetailUrl(p)

\* LoginRequiredMixin.dispatch: anonymous users are sent to login_url
LoginRequiredMixin_dispatch(user) ==
    IF user = Anonymous THEN "RedirectToLogin" ELSE "Allow"

\* ------------------------------------------------- authorization, posts
\* the login check of the parent class done first
PublicateLoginRequiredMixin_dispatch_LoginFirst(action, user, pk) ==
    IF user = Anonymous THEN "RedirectToLogin"
    ELSE IF action # "create"
         THEN IF ~PostExists(pk) THEN "NotFound"
              ELSE IF user # posts[pk].author
                   THEN IF action = "edit" THEN "RedirectToCanonical"
                        ELSE "NotFound"
                   ELSE "Allow"
         ELSE "Allow"

\* the comparison with the author left out
PublicateLoginRequiredMixin_dispatch_NoAuthorCheck(action, user, pk) ==
    IF action # "create" /\ ~PostExists(pk) THEN "NotFound"
    ELSE LoginRequiredMixin_dispatch(user)

\* PermissionDenied raised where Http404 is
PublicateLoginRequiredMixin_dispatch_Forbidden(action, user, pk) ==
    IF action # "create"
    THEN IF ~PostExists(pk) THEN "NotFound"
         ELSE IF user # posts[pk].author
              THEN IF action = "edit" THEN "RedirectToCanonical"
                   ELSE "Forbidden"
              ELSE LoginRequiredMixin_dispatch(user)
    ELSE LoginRequiredMixin_dispatch(user)

\* PublicateLoginRequiredMixin.dispatch, up to the hand-over to the view
PublicateLoginRequiredMixin_dispatch(action, user, pk) ==
    IF action # "create"
    THEN IF ~PostExists(pk) THEN "NotFound"
         ELSE IF user # posts[pk].author
              THEN IF action = "edit" THEN "RedirectToCanonical"
                   ELSE "NotFound"
              ELSE LoginRequiredMixin_dispatch(user)
    ELSE LoginRequiredMixin_dispatch(user)

\* the second lookup of PostDetailView.dispatch:
\* is_published=True, category__is_published=True, pub_date__lt=NOW
DetailFilter(pk) ==
    /\ posts[pk].is_published
    /\ category__is_published(pk)
    /\ posts[pk].pub_date < NOW

\* the filter applied to the author too
PostDetailView_dispatch_NoOwnerBypass(user, pk) ==
    IF ~PostExists(pk) THEN "NotFound"
    ELSE IF ~DetailFilter(pk) THEN "NotFound" ELSE "Allow"

\* PostDetailView.dispatch
PostDetailView_dispatch(user, pk) ==
    IF ~PostExists(pk) THEN "NotFound"
    ELSE IF user # posts[pk].author /\ ~DetailFilter(pk) THEN "NotFound"
         ELSE "Allow"

\* the url of the object whatever the action
get_success_url_AlwaysDetail(action, author, pk) == get_absolute_url(pk)

\* PublicateLoginRequiredMixin.get_success_url
PublicateLoginRequiredMixin_get_success_url(action, author, pk) ==
    IF action = "delete" THEN IndexUrl
    ELSE IF action = "create" THEN ProfileUrl(author)
         ELSE get_absolute_url(pk)

\* ----------------------------------------------- authorization, comments
\* anonymous visitors handed to the login check for every action
Comment_dispatch_NoAnonymousCheck(action, user, pk) ==
    IF user = Anonymous THEN "RedirectToLogin"
    ELSE IF action # "create" /\ ~(CommentExists(pk) /\ comments[pk].author = user)
         THEN "NotFound"
         ELSE "Allow"

\* the comment looked up by pk alone
Comment_dispatch_NoAuthorFilter(action, user, pk) ==
    IF action # "create"
    THEN IF user = Anonymous THEN "NotFound"
         ELSE IF ~CommentExists(pk) THEN "NotFound" ELSE "Allow"
    ELSE IF user = Anonymous THEN "RedirectToLogin" ELSE "Allow"

\* Comment_publicateLoginRequiredMixin.dispatch
Comment_publicateLoginRequiredMixin_dispatch(action, user, pk) ==
    IF action # "create"
    THEN IF user = Anonymous THEN "NotFound"
         ELSE IF ~(CommentExists(pk) /\ comments[pk].author = user)
              THEN "NotFound"
              ELSE LoginRequiredMixin_dispatch(user)
    ELSE LoginRequiredMixin_dispatch(user)

\* CommentCreateView.dispatch: pk is the post commented on
CommentCreateView_dispatch(user, pk) ==
    IF ~PostExists(pk) THEN "NotFound"
    ELSE Comment_publicateLoginRequiredMixin_dispatch("create", user, pk)

\* Comment.get_absolute_url, Comment_publicateLoginRequiredMixin.get_success_url
Comment_get_success_url(post) == PostDetailUrl(post)

\* -------------------------------------------------------------- listings
\* PostListView.queryset
IndexQueryset ==
    {p \in PostIds : /\ posts[p].exists
                     /\ posts[p].pub_date <= NOW
                     /\ posts[p].is_published
                     /\ category__is_published(p)}

\* UserDetailView.get_context_data: the posts of the profile's owner
ProfileQueryset(viewer, owner) ==
    {p \in PostIds : /\ posts[p].exists
                     /\ posts[p].author = owner
                     /\ (viewer # owner =>
                            /\ posts[p].is_published
                            /\ category__is_published(p))}

\* every category, published or not
CategoryQueryset_All == {c \in CatIds : categories[c].exists}

\* CategoryDetailView.queryset
CategoryQueryset == {c \in CatIds : categories[c].exists /\ categories[c].is_published}

\* CategoryDetailView.get_context_data: the posts of the category
CategoryPosts(c) ==
    {p \in PostIds : /\ posts[p].exists
                     /\ posts[p].category = c
                     /\ posts[p].pub_date <= NOW
                     /\ posts[p].is_published
                     /\ category__is_published(p)}

\* order_by("-pub_date"): every order of the rows the database may return,
\* rows with equal pub_date in any order
OrderByPubDateDesc(S) ==
    {s \in [1..Cardinality(S) -> S] :
        /\ \A i, j \in 1..Cardinality(S) : i # j => s[i] # s[j]
        /\ \A i, j \in 1..Cardinality(S) :
              i < j => posts[s[i]].pub_date >= posts[s[j]].pub_date}

\* ------------------------------------------------------------ pagination
PageParams ==
    {NoPage, [kind |-> "text", n |-> 0], [kind |-> "last", n |-> 0]}
    \cup {[kind |-> "int", n |-> k] : k \in -1..MaxPageReq}

Min(a, b) == IF a < b THEN a ELSE b

\* the division rounded down and one added
num_pages_FloorPlusOne(count, per_page) == count \div per_page + 1

\* Paginator.num_pages with allow_empty_first_page=True, orphans=0
num_pages(count, per_page) ==
    IF count = 0 THEN 1 ELSE (count + per_page - 1) \div per_page

\* a number below 1 taken for page 1
validate_number_ClampLow(param, count, per_page) ==
    IF param.kind # "int" THEN [err |-> "PageNotAnInteger", number |-> 0]
    ELSE IF param.n < 1 THEN [err |-> "none", number |-> 1]
    ELSE IF param.n > num_pages(count, per_page)
         THEN [err |-> "EmptyPage", number |-> 0]
         ELSE [err |-> "none", number |-> param.n]

\* Paginator.validate_number
validate_number(param, count, per_page) ==
    IF param.kind # "int" THEN [err |-> "PageNotAnInteger", number |-> 0]
    ELSE IF param.n < 1 THEN [err |-> "EmptyPage", number |-> 0]
    ELSE IF param.n > num_pages(count, per_page)
         THEN [err |-> "EmptyPage", number |-> 0]
         ELSE [err |-> "none", number |-> param.n]

\* Paginator.page for a valid number
page(list, per_page, number) ==
    [ok |-> TRUE, number |-> number,
     items |-> SubSeq(list, (number - 1) * per_page + 1,
                      Min(number * per_page, Len(list)))]

PageNotFound == [ok |-> FALSE, number |-> 0, items |-> <<>>]

\* Paginator.page called in place of get_page: an empty page is an error
get_page_Strict(list, per_page, param) ==
    LET v == validate_number(param, Len(list), per_page)
    IN  IF v.err = "EmptyPage" THEN PageNotFound
        ELSE page(list, per_page, IF v.err = "none" THEN v.number ELSE 1)

\* Paginator.get_page
get_page(list, per_page, param) ==
    LET v == validate_number(param, Len(list), per_page)
        number == IF v.err = "PageNotAnInteger" THEN 1
                  ELSE IF v.err = "EmptyPage"
                       THEN num_pages(Len(list), per_page)
                       ELSE v.number
    IN  page(list, per_page, number)

\* PaginatorAddMixin.paginate_list; paginate_by 0 stands for None
paginate_list(list, paginate_by, param) ==
    LET per_page == IF paginate_by = 0 THEN PAGINATE_NUM ELSE paginate_by
    IN  get_page(list, per_page, param)

\* ListView pagination of PostListView (paginate_by = PAGINATE_NUM)
ListView_paginate_queryset(list, per_page, param) ==
    IF param.kind = "text" THEN PageNotFound
    ELSE LET wanted == IF param.kind = "missing" THEN [kind |-> "int", n |-> 1]
                       ELSE IF param.kind = "last"
                            THEN [kind |-> "int",
                                  n |-> num_pages(Len(list), per_page)]
                            ELSE param
             v == validate_number(wanted, Len(list), per_page)
         IN  IF v.err # "none" THEN PageNotFound
             ELSE page(list, per_page, v.number)

\* the response of a listing view given the page the paginator produced
PageResponse(view, user, pk, param, pg) ==
    IF pg.ok
    THEN [Response(view, user, pk, "Allow", NoWhere)
            EXCEPT !.param = param, !.items = pg.items, !.number = pg.number]
    ELSE [Response(view, user, pk, "NotFound", NoWhere) EXCEPT !.param = param]

\* PostListView
PostListView(user, list, param) ==
    PageResponse("index", user, 0, param,
                 ListView_paginate_queryset(list, PAGINATE_NUM, param))

\* UserDetailView; every user of Users has a profile
UserDetailView(user, owner, list, param) ==
    PageResponse("profile", user, owner, param,
                 paginate_list(list, 0, param))

\* CategoryDetailView for a category of CategoryQueryset
CategoryDetailView(user, c, list, param) ==
    PageResponse("category", user, c, param,
                 paginate_list(list, PAGINATE_NUM, param))

\* ------------------------------------------------------------------ Init
Init ==
    /\ posts = [p \in PostIds |-> NoPost]
    /\ categories = [c \in CatIds |-> NoCategoryRow]
    /\ comments = [c \in CommentIds |-> NoComment]
    /\ nextPost = 1
    /\ nextComment = 1
    /\ clock = 1
    /\ NOW = clock
    /\ objects_list = <<>>
    /\ resp = NoRequest

\* ------------------------------------------------ the clock and the admin
\* time passes; views.NOW keeps the value of the import
Tick ==
    /\ clock < MaxTime
    /\ clock' = clock + 1
    /\ resp' = NoRequest
    /\ UNCHANGED <<store, NOW, objects_list>>

\* admin.site.register(Category): add a category or change its flag
AdminCategorySave ==
    \E c \in CatIds, b \in BOOLEAN :
        /\ categories' = [categories EXCEPT
                             ![c] = [exists |-> TRUE, is_published |-> b]]
        /\ resp' = Response("admin_category", Anonymous, c, "Allow", NoWhere)
        /\ UNCHANGED <<posts, comments, nextPost, nextComment, clock, NOW,
                       objects_list>>

\* admin.site.register(Category): delete; Post.category is SET_NULL
AdminCategoryDelete ==
    \E c \in CatIds :
        /\ categories[c].exists
        /\ categories' = [categories EXCEPT ![c] = NoCategoryRow]
        /\ posts' = [p \in PostIds |->
                        IF posts[p].exists /\ posts[p].category = c
                        THEN [posts[p] EXCEPT !.category = NoCategory]
                        ELSE posts[p]]
        /\ resp' = NoRequest
        /\ UNCHANGED <<comments, nextPost, nextComment, clock, NOW,
                       objects_list>>

\* admin.site.register(Post): the flag the post form does not offer
AdminPostSave ==
    \E p \in PostIds, b \in BOOLEAN :
        /\ posts[p].exists
        /\ posts' = [posts EXCEPT ![p].is_published = b]
        /\ resp' = NoRequest
        /\ UNCHANGED <<categories, comments, nextPost, nextComment, clock,
                       NOW, objects_list>>

\* ----------------------------------------------------------------- posts
\* The requests of the editing views are the POSTs of a valid form.
\* PostCreateView: the form takes pub_date and an existing category,
\* form_valid sets the author, is_published keeps its default
PostCreateView ==
    \E user \in Viewers, d \in Times, c \in CatIds :
        LET out == PublicateLoginRequiredMixin_dispatch("create", user, 0)
        IN  IF out = "Allow"
            THEN /\ nextPost <= MaxPost
                 /\ categories[c].exists
                 /\ posts' = [posts EXCEPT ![nextPost] =
                        [exists |-> TRUE, author |-> user,
                         is_published |-> TRUE, pub_date |-> d,
                         category |-> c]]
                 /\ nextPost' = nextPost + 1
                 /\ resp' = Response("post_create", user, nextPost, out,
                        PublicateLoginRequiredMixin_get_success_url(
                            "create", user, nextPost))
                 /\ UNCHANGED <<categories, comments, nextComment, clock,
                                NOW, objects_list>>
            ELSE /\ resp' = Response("post_create", user, 0, out,
                        IF out = "RedirectToLogin" THEN LoginUrl ELSE NoWhere)
                 /\ UNCHANGED <<store, clock, NOW, objects_list>>

\* PostDetailView
PostDetailView ==
    \E user \in Viewers, pk \in PostIds :
        /\ resp' = Response("post_detail", user, pk,
                            PostDetailView_dispatch(user, pk), NoWhere)
        /\ UNCHANGED <<store, clock, NOW, objects_list>>

\* PostUpdateView: the form changes pub_date and category
PostUpdateView ==
    \E user \in Viewers, pk \in PostIds,
       d \in Times, c \in CatIds :
        LET out == PublicateLoginRequiredMixin_dispatch("edit", user, pk)
        IN  IF out = "Allow"
            THEN /\ categories[c].exists
                 /\ posts' = [posts EXCEPT ![pk].pub_date = d,
                                           ![pk].category = c]
                 /\ resp' = Response("post_edit", user, pk, out,
                        PublicateLoginRequiredMixin_get_success_url(
                            "edit", posts[pk].author, pk))
                 /\ UNCHANGED <<categories, comments, nextPost, nextComment,
                                clock, NOW, objects_list>>
            ELSE /\ resp' = Response("post_edit", user, pk, out,
                        IF out = "RedirectToCanonical"
                        THEN get_absolute_url(pk) ELSE NoWhere)
                 /\ UNCHANGED <<store, clock, NOW, objects_list>>

\* PostDeleteView: the comments of the post go with it (CASCADE)
PostDeleteView ==
    \E user \in Viewers, pk \in PostIds :
        LET out == PublicateLoginRequiredMixin_dispatch("delete", user, pk)
        IN  IF out = "Allow"
            THEN /\ posts' = [posts EXCEPT ![pk] = NoPost]
                 /\ comments' = [k \in CommentIds |->
                        IF comments[k].exists /\ comments[k].post = pk
                        THEN NoComment ELSE comments[k]]
                 /\ resp' = Response("post_delete", user, pk, out,
                        PublicateLoginRequiredMixin_get_success_url(
                            "delete", posts[pk].author, pk))
                 /\ UNCHANGED <<categories, nextPost, nextComment, clock,
                                NOW, objects_list>>
            ELSE /\ resp' = Response("post_delete", user, pk, out, NoWhere)
                 /\ UNCHANGED <<store, clock, NOW, objects_list>>

\* -------------------------------------------------------------- comments
\* CommentCreateView: pk names the post, form_valid sets author and post
CommentCreateView ==
    \E user \in Viewers, pk \in PostIds, t \in Texts :
        LET out == CommentCreateView_dispatch(user, pk)
        IN  IF out = "Allow"
            THEN /\ nextComment <= MaxComment
                 /\ comments' = [comments EXCEPT ![nextComment] =
                        [exists |-> TRUE, author |-> user, post |-> pk,
                         text |-> t]]
                 /\ nextComment' = nextComment + 1
                 /\ resp' = Response("comment_create", user, pk, out,
                                     Comment_get_success_url(pk))
                 /\ UNCHANGED <<posts, categories, nextPost, clock, NOW,
                                objects_list>>
            ELSE /\ resp' = Response("comment_create", user, pk, out,
                        IF out = "RedirectToLogin" THEN LoginUrl ELSE NoWhere)
                 /\ UNCHANGED <<store, clock, NOW, objects_list>>

\* CommentUpdateView: pk names the comment, the form changes the text
CommentUpdateView ==
    \E user \in Viewers, pk \in CommentIds, t \in Texts :
        LET out == Comment_publicateLoginRequiredMixin_dispatch("", user, pk)
        IN  IF out = "Allow"
            THEN /\ comments' = [comments EXCEPT ![pk].text = t]
                 /\ resp' = Response("comment_edit", user, pk, out,
                        Comment_get_success_url(comments[pk].post))
                 /\ UNCHANGED <<posts, categories, nextPost, nextComment,
                                clock, NOW, objects_list>>
            ELSE /\ resp' = Response("comment_edit", user, pk, out, NoWhere)
                 /\ UNCHANGED <<store, clock, NOW, objects_list>>

\* CommentDeleteView: pk names the comment
CommentDeleteView ==
    \E user \in Viewers, pk \in CommentIds :
        LET out == Comment_publicateLoginRequiredMixin_dispatch("", user, pk)
        IN  IF out = "Allow"
            THEN /\ comments' = [comments EXCEPT ![pk] = NoComment]
                 /\ resp' = Response("comment_delete", user, pk, out,
                        Comment_get_success_url(comments[pk].post))
                 /\ UNCHANGED <<posts, categories, nextPost, nextComment,
                                clock, NOW, objects_list>>
            ELSE /\ resp' = Response("comment_delete", user, pk, out, NoWhere)
                 /\ UNCHANGED <<store, clock, NOW, objects_list>>

\* -------------------------------------------------------- listing requests
\* a request of the index page, the database returning the rows as list
IndexRequest(user, list, param) ==
    /\ resp' = PostListView(user, list, param)
    /\ UNCHANGED <<store, clock, NOW, objects_list>>

\* a request of the profile page of owner
ProfileRequest(user, owner, list, param) ==
    /\ resp' = UserDetailView(user, owner, list, param)
    /\ UNCHANGED <<store, clock, NOW, objects_list>>

\* a request of the page of category c: get_object on CategoryQueryset first
CategoryRequest(user, c, list, param) ==
    /\ resp' = IF c \in CategoryQueryset
               THEN CategoryDetailView(user, c, list, param)
               ELSE [Response("category", user, c, "NotFound", NoWhere)
                        EXCEPT !.param = param]
    /\ UNCHANGED <<store, clock, NOW, objects_list>>

Index ==
    \E user \in Viewers, list \in OrderByPubDateDesc(IndexQueryset) :
        IndexRequest(user, list, NoPage)

Profile ==
    \E user \in Viewers, owner \in Users :
        \E list \in OrderByPubDateDesc(ProfileQueryset(user, owner)) :
            ProfileRequest(user, owner, list, NoPage)

Category ==
    \E user \in Viewers, c \in CatIds :
        \E list \in OrderByPubDateDesc(CategoryPosts(c)) :
            CategoryRequest(user, c, list, NoPage)

Next ==
    \/ Tick
    \/ AdminCategorySave
    \/ AdminCategoryDelete
    \/ AdminPostSave
    \/ PostCreateView
    \/ PostDetailView
    \/ PostUpdateView
    \/ PostDeleteView
    \/ Index
    \/ Profile
    \/ Category

Spec == Init /\ [][Next]_vars

\* ------------------------------------------ the comments under the posts
\* a site whose categories exist and stay as they are
InitComment ==
    /\ posts = [p \in PostIds |-> NoPost]
    /\ categories = [c \in CatIds |-> [exists |-> TRUE, is_published |-> TRUE]]
    /\ comments = [c \in CommentIds |-> NoComment]
    /\ nextPost = 1
    /\ nextComment = 1
    /\ clock = 1
    /\ NOW = clock
    /\ objects_list = <<>>
    /\ resp = NoRequest

NextComment ==
    \/ PostCreateView
    \/ PostUpdateView
    \/ PostDeleteView
    \/ CommentCreateView
    \/ CommentUpdateView
    \/ CommentDeleteView

SpecComment == InitComment /\ [][NextComment]_vars

\* ------------------------------------------- pagination of long listings
\* the listings of a site whose database returns MaxLen rows at most
InitPage ==
    /\ posts = [p \in PostIds |-> NoPost]
    /\ categories = [c \in CatIds |-> [exists |-> TRUE, is_published |-> TRUE]]
    /\ comments = [c \in CommentIds |-> NoComment]
    /\ nextPost = 1
    /\ nextComment = 1
    /\ clock = 0
    /\ NOW = clock
    /\ objects_list = <<>>
    /\ resp = NoRequest

\* one more row matches the filters of the listing
Grow ==
    /\ Len(objects_list) < MaxLen
    /\ objects_list' = Append(objects_list, Len(objects_list) + 1)
    /\ resp' = NoRequest
    /\ UNCHANGED <<store, clock, NOW>>

PageIndex ==
    \E user \in Viewers, param \in PageParams :
        IndexRequest(user, objects_list, param)

PageProfile ==
    \E user \in Viewers, owner \in Users, param \in PageParams :
        ProfileRequest(user, owner, objects_list, param)

PageCategory ==
    \E user \in Viewers, c \in CatIds, param \in PageParams :
        CategoryRequest(user, c, objects_list, param)

\* PaginatorAddMixin.paginate_list called with a page size of its own;
\* the response keeps the paginate_by argument as pk
PaginateList ==
    \E paginate_by \in 0..MaxPerPage, param \in PageParams :
        /\ resp' = PageResponse("paginate_list", Anonymous, paginate_by, param,
                                paginate_list(objects_list, paginate_by, param))
        /\ UNCHANGED <<store, clock, NOW, objects_list>>

NextPage == Grow \/ PageIndex \/ PageProfile \/ PageCategory \/ PaginateList

SpecPage == InitPage /\ [][NextPage]_vars

\* ======================================================================
\* Properties
\* ======================================================================
Range(seq) == {seq[i] : i \in 1..Len(seq)}

\* the visibility policy of the specification at the time of the request
PubliclyVisible(p) ==
    /\ posts[p].is_published
    /\ posts[p].category # NoCategory
    /\ categories[posts[p].category].exists
    /\ categories[posts[p].category].is_published
    /\ posts[p].pub_date <= clock

\* C1: a viewer who is not the author of an existing post gets its detail
\* page if and only if the post is published, its category is published and
\* its pub_date is not after the time of the request (pub_date equal to that
\* time included); otherwise the answer is not-found.
C1_ViewIffVisible ==
    (/\ resp.view = "post_detail"
     /\ PostExists(resp.pk)
     /\ resp.user # posts[resp.pk].author)
    => /\ resp.outcome \in {"Allow", "NotFound"}
       /\ resp.outcome = "Allow" <=> PubliclyVisible(resp.pk)

\* C2: the author of a post is always allowed to view, edit and delete it,
\* whatever is_published, the category (a null category included) and
\* pub_date are.
C2_OwnerAlwaysAllowed ==
    [][(/\ resp'.view \in {"post_detail", "post_edit", "post_delete"}
        /\ PostExists(resp'.pk)
        /\ resp'.user = posts[resp'.pk].author)
       => resp'.outcome = "Allow"]_vars

\* the author has been shown a post that is unpublished, without category and
\* dated in the future
C2_Witness ==
    /\ resp.view = "post_detail"
    /\ resp.outcome = "Allow"
    /\ PostExists(resp.pk)
    /\ resp.user = posts[resp.pk].author
    /\ ~posts[resp.pk].is_published
    /\ posts[resp.pk].category = NoCategory
    /\ posts[resp.pk].pub_date > clock

\* C3: for an existing post and a viewer who is not its author (anonymous
\* included) an edit request is answered with a redirect to the detail page
\* of the post and a delete request with not-found, and the store is left
\* as it was.
C3_NonOwnerEditDelete ==
    [][(/\ resp'.view \in {"post_edit", "post_delete"}
        /\ PostExists(resp'.pk)
        /\ resp'.user # posts[resp'.pk].author)
       => /\ resp'.view = "post_edit" =>
                /\ resp'.outcome = "RedirectToCanonical"
                /\ resp'.to = [name |-> "post_detail", arg |-> resp'.pk]
          /\ resp'.view = "post_delete" => resp'.outcome = "NotFound"
          /\ UNCHANGED store]_vars

\* an anonymous visitor was redirected from the edit page of an existing post
C3_Witness ==
    /\ resp.view = "post_edit"
    /\ resp.user = Anonymous
    /\ PostExists(resp.pk)
    /\ resp.outcome = "RedirectToCanonical"

CommentViews == {"comment_create", "comment_edit", "comment_delete"}

\* C4: every comment request (create, edit, delete) of an anonymous visitor
\* is answered with not-found, a create on an existing post included, and
\* no comment is created.
C4_AnonymousCommentNotFound ==
    (resp.view \in CommentViews /\ resp.user = Anonymous)
    => resp.outcome = "NotFound"

\* C4 as amended: an anonymous edit or delete of a comment is answered with
\* not-found; an anonymous create is answered with not-found when the post
\* does not exist and with a redirect to the login page when it does; in
\* each case the comments are left as they were.
C4_AnonymousComment ==
    [][(resp'.view \in CommentViews /\ resp'.user = Anonymous)
       => /\ resp'.outcome =
                IF resp'.view = "comment_create" /\ PostExists(resp'.pk)
                THEN "RedirectToLogin" ELSE "NotFound"
          /\ resp'.outcome = "RedirectToLogin" =>
                resp'.to = [name |-> "login", arg |-> 0]
          /\ UNCHANGED comments]_vars

\* an anonymous visitor was sent to the login page from the comment form of
\* an existing post
C4_Witness ==
    /\ resp.view = "comment_create"
    /\ resp.user = Anonymous
    /\ PostExists(resp.pk)
    /\ resp.outcome = "RedirectToLogin"

\* C5: for an existing comment and an authenticated viewer, edit and delete
\* are allowed if and only if the viewer is the author of the comment; any
\* other authenticated viewer gets not-found and the comment stays as it is.
C5_CommentOwnerOnly ==
    [][(/\ resp'.view \in {"comment_edit", "comment_delete"}
        /\ resp'.user # Anonymous
        /\ CommentExists(resp'.pk))
       => /\ resp'.outcome = "Allow" <=> resp'.user = comments[resp'.pk].author
          /\ resp'.user # comments[resp'.pk].author =>
                /\ resp'.outcome = "NotFound"
                /\ UNCHANGED comments]_vars

\* an authenticated user who is not the author was refused the edit of an
\* existing comment
C5_Witness ==
    /\ resp.view = "comment_edit"
    /\ resp.user # Anonymous
    /\ CommentExists(resp.pk)
    /\ resp.user # comments[resp.pk].author
    /\ resp.outcome = "NotFound"

\* C6: the profile page of a user lists all posts of that user when the
\* viewer is that user, and for every other viewer exactly those of the
\* user's posts that are published, in a published category and dated not
\* after the time of the request.
C6_ProfileListing ==
    (resp.view = "profile" /\ resp.outcome = "Allow")
    => Range(resp.items) =
          {p \in PostIds : /\ posts[p].exists
                           /\ posts[p].author = resp.pk
                           /\ (resp.user # resp.pk => PubliclyVisible(p))}

\* C7: for every viewer the index lists exactly the posts that are
\* published, in a published category and dated not after the time of the
\* request.
C7_IndexExactlyVisible ==
    (resp.view = "index" /\ resp.outcome = "Allow")
    => Range(resp.items) =
          {p \in PostIds : posts[p].exists /\ PubliclyVisible(p)}

ListingViews == {"index", "profile", "category"}

\* the number of the last page of the listing that was paginated
LastPage ==
    IF Len(objects_list) = 0 THEN 1
    ELSE (Len(objects_list) + PAGINATE_NUM - 1) \div PAGINATE_NUM

\* C9: on the index, the profile page and the category page pagination
\* never fails: a missing or non-numeric page parameter gives page 1 and a
\* number above the last page gives the last page.
C9_PaginationTotal ==
    resp.view \in ListingViews
    => /\ resp.outcome = "Allow"
       /\ resp.param.kind # "int" => resp.number = 1
       /\ (resp.param.kind = "int" /\ resp.param.n > LastPage)
             => resp.number = LastPage

\* C9 as amended: on the profile page and on the page of a published
\* category no page parameter fails: a missing or non-numeric one gives
\* page 1, a number above the last page gives the last page and a number of
\* an existing page gives that page. On the index a missing parameter gives
\* page 1, "last" gives the last page and a number of an existing page
\* gives that page, but any other text and any number above the last page
\* are answered with not-found.
C9_Pagination ==
    /\ resp.view \in {"profile", "category"}
       => /\ resp.outcome = "Allow"
          /\ resp.param.kind # "int" => resp.number = 1
          /\ resp.param.kind = "int" /\ resp.param.n > LastPage
                => resp.number = LastPage
          /\ resp.param.kind = "int" /\ resp.param.n \in 1..LastPage
                => resp.number = resp.param.n
    /\ resp.view = "index"
       => /\ resp.param.kind = "missing"
                => resp.outcome = "Allow" /\ resp.number = 1
          /\ resp.param.kind = "last"
                => resp.outcome = "Allow" /\ resp.number = LastPage
          /\ resp.param.kind = "text" => resp.outcome = "NotFound"
          /\ resp.param.kind = "int" /\ resp.param.n \in 1..LastPage
                => resp.outcome = "Allow" /\ resp.number = resp.param.n
          /\ resp.param.kind = "int" /\ resp.param.n > LastPage
                => resp.outcome = "NotFound"

\* a profile page of several pages was asked for a page above the last one
\* and answered with the last one
C9_Witness ==
    /\ resp.view = "profile"
    /\ resp.param.kind = "int"
    /\ resp.param.n > LastPage
    /\ LastPage >= 2
    /\ resp.outcome = "Allow"
    /\ resp.number = LastPage

\* C10: a page number below 1 (zero or negative) gives page 1 on every
\* paginated listing.
C10_TooLowIsFirstPage ==
    (/\ resp.view \in ListingViews
     /\ resp.param.kind = "int"
     /\ resp.param.n < 1)
    => resp.outcome = "Allow" /\ resp.number = 1

\* C10 as amended: a page number below 1 gives the last page on the profile
\* page and on the page of a published category (page 1 only when the
\* listing has one page) and is answered with not-found on the index.
C10_TooLow ==
    (/\ resp.view \in ListingViews
     /\ resp.param.kind = "int"
     /\ resp.param.n < 1)
    => IF resp.view = "index" THEN resp.outcome = "NotFound"
       ELSE resp.outcome = "Allow" /\ resp.number = LastPage

\* page 0 of a category page of several pages was answered with the last
\* page
C10_Witness ==
    /\ resp.view = "category"
    /\ resp.param.kind = "int"
    /\ resp.param.n = 0
    /\ resp.outcome = "Allow"
    /\ resp.number = LastPage
    /\ LastPage >= 2

\* the page size of the listing that was paginated
PageSizeOf(r) ==
    IF r.view = "paginate_list" /\ r.pk # 0 THEN r.pk ELSE PAGINATE_NUM

\* ceil(len / n), and 1 for the empty sequence
CeilPages(len, n) ==
    IF len = 0 THEN 1
    ELSE CHOOSE k \in 1..len : k * n >= len /\ (k - 1) * n < len

\* the items of the pages 1..k of the paginator, one after the other
RECURSIVE PagesUpTo(_, _, _)
PagesUpTo(list, n, k) ==
    IF k = 0 THEN <<>>
    ELSE PagesUpTo(list, n, k - 1)
         \o paginate_list(list, n, [kind |-> "int", n |-> k]).items

\* C11: for every sequence and page size n the number of pages is
\* ceil(len / n), 1 for the empty sequence; every page but the last holds n
\* items, the page served holds the items of its place in the sequence, and
\* the items of the pages 1..pageCount one after the other are the sequence.
C11_PagesReconstruct ==
    (resp.view \in ListingViews \cup {"paginate_list"} /\ resp.outcome = "Allow")
    => LET n == PageSizeOf(resp)
           len == Len(objects_list)
           pc == CeilPages(len, n)
       IN  /\ resp.number \in 1..pc
           /\ Len(resp.items) =
                 IF resp.number < pc THEN n ELSE len - (pc - 1) * n
           /\ \A i \in 1..Len(resp.items) :
                 resp.items[i] = objects_list[(resp.number - 1) * n + i]
           /\ PagesUpTo(objects_list, n, pc) = objects_list
           /\ \A k \in 1..(pc - 1) :
                 Len(paginate_list(objects_list, n,
                                   [kind |-> "int", n |-> k]).items) = n

\* the last page of a listing of three pages was served and is not full
C11_Witness ==
    /\ resp.view = "profile"
    /\ resp.outcome = "Allow"
    /\ resp.number = 3
    /\ Len(objects_list) > 2 * PAGINATE_NUM
    /\ Len(resp.items) = Len(objects_list) - 2 * PAGINATE_NUM
    /\ Len(resp.items) < PAGINATE_NUM

\* C12: the time gate uses the clock of the request: a published post in a
\* published category whose pub_date was in the future when the views
\* module was imported is shown to viewers other than its author (detail
\* page, index, category page) on every request made once the clock has
\* reached pub_date.
C12_TimeGateFollowsClock ==
    \A p \in PostIds :
        (/\ posts[p].exists
         /\ posts[p].is_published
         /\ category__is_published(p)
         /\ posts[p].pub_date > NOW
         /\ posts[p].pub_date <= clock)
        => /\ (resp.view = "index" /\ resp.outcome = "Allow")
                 => p \in Range(resp.items)
           /\ (resp.view = "category" /\ resp.pk = posts[p].category)
                 => resp.outcome = "Allow" /\ p \in Range(resp.items)
           /\ (resp.view = "post_detail" /\ resp.pk = p
                                         /\ resp.user # posts[p].author)
                 => resp.outcome = "Allow"

\* C13: when the admin has saved the category of a published post of the
\* past, the very next request sees the flag just saved. Category
\* unpublished: the post is not in the index and not on the category page,
\* its detail page is not-found for everyone but the author, the author is
\* shown it and finds it on the own profile. Category published (again):
\* the post is in the index and on the category page and its detail page is
\* shown to everyone.
C13_CategorySwitch ==
    [][\A p \in PostIds :
        (/\ resp.view = "admin_category"
         /\ posts[p].exists
         /\ posts[p].category = resp.pk
         /\ posts[p].is_published
         /\ posts[p].pub_date < clock)
        => IF ~categories[resp.pk].is_published
           THEN /\ resp'.view = "index" => p \notin Range(resp'.items)
                /\ (resp'.view = "category" /\ resp'.pk = resp.pk)
                      => p \notin Range(resp'.items)
                /\ (resp'.view = "post_detail" /\ resp'.pk = p)
                      => (resp'.outcome = "Allow"
                             <=> resp'.user = posts[p].author)
                /\ (resp'.view = "profile" /\ resp'.pk = posts[p].author
                                           /\ resp'.user = posts[p].author)
                      => p \in Range(resp'.items)
           ELSE /\ resp'.view = "index" => p \in Range(resp'.items)
                /\ (resp'.view = "category" /\ resp'.pk = resp.pk)
                      => p \in Range(resp'.items)
                /\ (resp'.view = "post_detail" /\ resp'.pk = p)
                      => resp'.outcome = "Allow"]_vars

PostViews == {"post_detail", "post_edit", "post_delete"}

\* the response to a request for a pk that names no post
AbsentResponse(view, user, pk) == Response(view, user, pk, "NotFound", NoWhere)

\* C14: existence is not leaked: to a viewer who is not the author, the
\* response to a view, edit or delete request for a post that exists and is
\* hidden by the visibility policy is the response the same request gets
\* when no post has that pk.
C14_NoExistenceLeak ==
    [][(/\ resp'.view \in PostViews
        /\ (PostExists(resp'.pk) =>
               /\ resp'.user # posts[resp'.pk].author
               /\ ~PubliclyVisible(resp'.pk)))
       => resp' = AbsentResponse(resp'.view, resp'.user, resp'.pk)]_vars

\* C14 as amended: to a viewer who is not the author, the response to a
\* view or delete request for an existing hidden post is the not-found a
\* missing pk gets; the response to an edit request is not: it is a
\* redirect to the detail page of the post when the post exists and
\* not-found when it does not.
C14_LeakOnlyByEdit ==
    [][/\ (/\ resp'.view \in {"post_detail", "post_delete"}
           /\ (PostExists(resp'.pk) =>
                  /\ resp'.user # posts[resp'.pk].author
                  /\ ~PubliclyVisible(resp'.pk)))
          => resp' = AbsentResponse(resp'.view, resp'.user, resp'.pk)
       /\ (resp'.view = "post_edit" /\ ~PostExists(resp'.pk))
          => resp' = AbsentResponse(resp'.view, resp'.user, resp'.pk)
       /\ (/\ resp'.view = "post_edit"
           /\ PostExists(resp'.pk)
           /\ resp'.user # posts[resp'.pk].author)
          => /\ resp'.outcome = "RedirectToCanonical"
             /\ resp'.to = [name |-> "post_detail", arg |-> resp'.pk]]_vars

\* a user who is not the author asked to delete an existing unpublished
\* post and got not-found
C14_Witness ==
    /\ resp.view = "post_delete"
    /\ PostExists(resp.pk)
    /\ resp.user \in Users
    /\ resp.user # posts[resp.pk].author
    /\ ~posts[resp.pk].is_published
    /\ resp.outcome = "NotFound"

\* C15: after a successful change the visitor is sent to the index when a
\* post was deleted, to the profile of the author when a post was created,
\* to the detail page of the post when a post was edited, and to the detail
\* page of the post commented on when a comment was created, edited or
\* deleted.
C15_Destinations ==
    [][resp'.outcome = "Allow" =>
        /\ resp'.view = "post_delete" =>
              /\ ~posts'[resp'.pk].exists
              /\ resp'.to = [name |-> "index", arg |-> 0]
        /\ resp'.view = "post_create" =>
              /\ posts'[resp'.pk].author = resp'.user
              /\ resp'.to = [name |-> "profile", arg |-> resp'.user]
        /\ resp'.view = "post_edit" =>
              resp'.to = [name |-> "post_detail", arg |-> resp'.pk]
        /\ resp'.view = "comment_create" =>
              /\ comments'[nextComment].post = resp'.pk
              /\ resp'.to = [name |-> "post_detail", arg |-> resp'.pk]
        /\ resp'.view \in {"comment_edit", "comment_delete"} =>
              resp'.to = [name |-> "post_detail",
                          arg |-> comments[resp'.pk].post]]_vars

\* a comment on the second post was deleted and its author sent to the
\* detail page of that post
C15_Witness ==
    /\ resp.view = "comment_delete"
    /\ resp.outcome = "Allow"
    /\ ~comments[resp.pk].exists
    /\ resp.to = [name |-> "post_detail", arg |-> 2]

\* what a request may do to the posts: a new post has the requesting user
\* as author, no post changes its author or its is_published flag, and a
\* post is changed or removed only by a request of its author
PostOwnershipKept ==
    \A p \in PostIds :
        /\ (~posts[p].exists /\ posts'[p].exists)
              => posts'[p].author = resp'.user /\ resp'.user \in Users
        /\ (posts[p].exists /\ posts'[p].exists)
              => /\ posts'[p].author = posts[p].author
                 /\ posts'[p].is_published = posts[p].is_published
        /\ (posts[p].exists /\ posts'[p] # posts[p])
              => resp'.user = posts[p].author

\* C17: ownership is fixed and exclusive over any sequence of requests: a
\* new post or comment has the requesting user as author, no request
\* changes the author of a post or a comment or the is_published flag of a
\* post, and a post or a comment is changed or removed only by a request of
\* its author.
C17_OwnershipExclusive ==
    [][/\ PostOwnershipKept
       /\ \A c \in CommentIds :
            /\ (~comments[c].exists /\ comments'[c].exists)
                  => comments'[c].author = resp'.user /\ resp'.user \in Users
            /\ (comments[c].exists /\ comments'[c].exists)
                  => comments'[c].author = comments[c].author
            /\ (comments[c].exists /\ comments'[c] # comments[c])
                  => resp'.user = comments[c].author]_vars

\* C17 as amended: as C17, except that a comment is also removed, together
\* with its post, when the author of the post deletes the post; a comment
\* is changed only by a request of its author and removed only by its
\* author or by that deletion.
C17_Ownership ==
    [][/\ PostOwnershipKept
       /\ \A c \in CommentIds :
            /\ (~comments[c].exists /\ comments'[c].exists)
                  => comments'[c].author = resp'.user /\ resp'.user \in Users
            /\ (comments[c].exists /\ comments'[c].exists)
                  => /\ comments'[c].author = comments[c].author
                     /\ comments'[c].post = comments[c].post
                     /\ comments'[c] # comments[c]
                           => resp'.user = comments[c].author
            /\ (comments[c].exists /\ ~comments'[c].exists)
                  => \/ /\ resp'.view = "comment_delete"
                        /\ resp'.pk = c
                        /\ resp'.user = comments[c].author
                     \/ /\ resp'.view = "post_delete"
                        /\ resp'.pk = comments[c].post
                        /\ resp'.user = posts[comments[c].post].author]_vars

\* the author of a post that carries a comment of another user has edited
\* the post
C17_Witness ==
    /\ resp.view = "post_edit"
    /\ resp.outcome = "Allow"
    /\ resp.to # NoWhere
    /\ posts[resp.pk].author = resp.user
    /\ \E c \in CommentIds : /\ comments[c].exists
                             /\ comments[c].post = resp.pk
                             /\ comments[c].author # resp.user

\* C16: the category gate fails closed: a post whose category is null (its
\* category was deleted, the post kept) is not in the index, not in the
\* profile listing shown to viewers other than its author, and its detail
\* page is not-found for them; its author is still shown it and finds it on
\* the own profile.
C16_NullCategoryHidden ==
    \A p \in PostIds :
        (posts[p].exists /\ posts[p].category = NoCategory)
        => /\ resp.view = "index" => p \notin Range(resp.items)
           /\ (resp.view = "profile" /\ resp.pk = posts[p].author)
                 => (p \in Range(resp.items) <=> resp.user = posts[p].author)
           /\ (resp.view = "post_detail" /\ resp.pk = p)
                 => /\ resp.user = posts[p].author => resp.outcome = "Allow"
                    /\ resp.user # posts[p].author => resp.outcome = "NotFound"

\* the category of a published post dated before the import was deleted and
\* the profile of its author, shown to another viewer, does not list it
C16_Witness ==
    /\ resp.view = "profile"
    /\ resp.outcome = "Allow"
    /\ resp.user # resp.pk
    /\ \E p \in PostIds : /\ posts[p].exists
                          /\ posts[p].author = resp.pk
                          /\ posts[p].category = NoCategory
                          /\ posts[p].is_published
                          /\ posts[p].pub_date < NOW
                          /\ p \notin Range(resp.items)

====
